---- MODULE Spec2Model ----
(***************************************************************************)
(* Model of the Givebutter sync microservice (src/main_fixed_recurring.py):*)
(* the snapshot store, the upstream client with its synthetic fallback,    *)
(* the reconciler, the guarded sync cycle and the query handlers.          *)
(*                                                                         *)
(* The service runs on one asyncio event loop: a handler runs without      *)
(* interruption up to its next real suspension point.  The only such       *)
(* points are the HTTP requests of poll_givebutter_api (the storage        *)
(* client is synchronous), so one action is one handler, or one segment    *)
(* of sync_all_data between two upstream responses.                        *)
(*                                                                         *)
(* The model is of the default storage layout (the timestamped namespace). *)
(***************************************************************************)
EXTENDS Integers, Sequences, FiniteSets, TLC

(***************************************************************************)
(* Bounds of the model.                                                    *)
(***************************************************************************)
\* invocations of sync_all_data (startup, timer and on-demand together)
MaxTasks == 2
\* seconds that pass after the start of the service
MaxClock == 1
\* failures the environment produces in one run: failed page requests,
\* failed uploads and failed reads together
MaxFaults == 2
\* records in the collections of a bucket that earlier runs have filled
MaxRows == 3
\* puts to the store by writers whose clocks disagree
MaxPuts == 3
\* pages the upstream holds of a collection
MaxPages == 3

(***************************************************************************)
(* Python values.  An optional value is a sequence of length 0 or 1.       *)
(***************************************************************************)
None == <<>>

Some(x) == <<x>>

\* A text is <<prefix, n>>: the prefix followed by the decimal digits of n,
\* and by nothing when n = -1.
Txt(p, n) == <<p, n>>

\* An identity field as it comes out of JSON: an int, a str or None.
PyInt(n) == [t |-> "int", v |-> Txt("", n)]

PyStr(p, n) == [t |-> "str", v |-> Txt(p, n)]

PyNone == [t |-> "none", v |-> Txt("", -1)]

\* str(x): an int becomes its decimal text, None becomes the text "None".
Str(x) ==
    IF x.t = "none" THEN [t |-> "str", v |-> Txt("None", -1)]
    ELSE [t |-> "str", v |-> x.v]

\* Python truthiness of an identity field: None, 0 and "" are falsy.
Truthy(x) ==
    /\ x.t # "none"
    /\ x # PyInt(0)
    /\ x # PyStr("", -1)

\* sum(...) over a sequence of integers (halving keeps the evaluation shallow)
RECURSIVE SumRange(_, _, _)
SumRange(s, lo, hi) ==
    IF lo > hi THEN 0
    ELSE IF lo = hi THEN s[lo]
    ELSE SumRange(s, lo, (lo + hi) \div 2) + SumRange(s, ((lo + hi) \div 2) + 1, hi)

SumSeq(s) == SumRange(s, 1, Len(s))

Range(s) == {s[i] : i \in DOMAIN s}

(***************************************************************************)
(* Time.  clock counts the seconds since the start of the service, which  *)
(* is at 23:59:59 of day 9 of the month, so that the first new second      *)
(* changes the day number and every field of the time of day.  A time is   *)
(* known to the second: two calls of datetime.now() within one second read *)
(* the same value here.                                                    *)
(***************************************************************************)
StartSecond == 8 * 86400 + 86399

Second(now) == StartSecond + now

Digit(d) == <<"0", "1", "2", "3", "4", "5", "6", "7", "8", "9">>[d + 1]

\* (mutant) %-d, %-H, %-M, %-S: no padding
TwoDigits_unpadded(n) ==
    IF n < 10 THEN <<Digit(n)>> ELSE <<Digit((n \div 10) % 10), Digit(n % 10)>>

\* %d, %H, %M, %S: two digits, zero padded
TwoDigits(n) == <<Digit((n \div 10) % 10), Digit(n % 10)>>

\* datetime.now(timezone.utc).strftime('%Y%m%d_%H%M%S')
strftime(now) ==
    LET s == Second(now)
        day == (s \div 86400) + 1
        tod == s % 86400
    IN  <<"2", "0", "2", "6", "0", "1">> \o TwoDigits(day) \o <<"_">>
        \o TwoDigits(tod \div 3600) \o TwoDigits((tod \div 60) % 60)
        \o TwoDigits(tod % 60)

\* code point of a character of a blob name
Ord(c) ==
    IF c = "_" THEN 95
    ELSE 48 + (CHOOSE d \in 0..9 : Digit(d) = c)

\* Python's str comparison a < b
RECURSIVE StrLess(_, _)
StrLess(a, b) ==
    IF b = <<>> THEN FALSE
    ELSE IF a = <<>> THEN TRUE
    ELSE IF Head(a) # Head(b) THEN Ord(Head(a)) < Ord(Head(b))
    ELSE StrLess(Tail(a), Tail(b))

(***************************************************************************)
(* Configuration and collections.                                          *)
(***************************************************************************)
\* data_types of sync_all_data, in its order
DataTypes == <<"contacts", "transactions", "plans", "campaigns">>

\* per_page of poll_givebutter_api
per_page == 100

Envelope(data, total, pp) ==
    [data |-> data, meta |-> [total |-> total, page |-> 1, per_page |-> pp]]

(***************************************************************************)
(* generate_mock_data: the synthetic datasets.  now is the time of the     *)
(* call, which created_at carries.                                         *)
(***************************************************************************)
MockContactCount == 168

MockTransactionCount == 186

MockPlanCount == 78

MockContact(i, now) ==
    [id |-> PyStr("contact_", i + 1),
     first_name |-> Txt("Donor", -1),
     last_name |-> Txt("", i + 1),
     email |-> <<"donor", i + 1, "@example.com">>,
     phone |-> <<"+1234567", i>>,
     total_donated |-> (i + 1) * 5000,
     donation_count |-> (i % 5) + 1,
     created_at |-> now]

\* (mutant) the contact number is not reduced modulo the number of contacts
MockTransaction_unwrapped(i, now) ==
    [id |-> PyStr("txn_", i),
     amount |-> 10000,
     fee |-> 329,
     net_amount |-> 9671,
     status |-> "succeeded",
     method |-> "card",
     contact_id |-> PyStr("contact_", i + 1),
     campaign_id |-> PyStr("campaign_main", -1),
     created_at |-> now]

MockTransaction(i, now) ==
    [id |-> PyStr("txn_", i),
     amount |-> 10000,
     fee |-> 329,
     net_amount |-> 9671,
     status |-> "succeeded",
     method |-> "card",
     contact_id |-> PyStr("contact_", (i % MockContactCount) + 1),
     campaign_id |-> PyStr("campaign_main", -1),
     created_at |-> now]

MockPlan(i, now) ==
    [id |-> PyStr("plan_", i + 1),
     amount |-> 2500,
     interval |-> "monthly",
     status |-> "active",
     contact_id |-> PyStr("contact_", i + 1),
     created_at |-> now]

MockCampaign(now) ==
    [id |-> PyStr("campaign_main", -1),
     title |-> "WLMN Annual Fundraiser",
     goal |-> 5000000,
     raised |-> 1242000,
     status |-> "active",
     created_at |-> now]

generate_mock_data(endpoint, now) ==
    IF endpoint = "contacts" THEN
        Envelope([k \in 1..MockContactCount |-> MockContact(k - 1, now)],
                 MockContactCount, MockContactCount)
    ELSE IF endpoint = "transactions" THEN
        Envelope([k \in 1..MockTransactionCount |-> MockTransaction(k - 1, now)],
                 MockTransactionCount, MockTransactionCount)
    ELSE IF endpoint = "plans" THEN
        Envelope([k \in 1..MockPlanCount |-> MockPlan(k - 1, now)],
                 MockPlanCount, per_page)
    ELSE IF endpoint = "campaigns" THEN
        Envelope(<<MockCampaign(now)>>, 1, per_page)
    ELSE Envelope(<<>>, 0, per_page)

(***************************************************************************)
(* A collection payload in flight or at rest is held in one of two forms,  *)
(* which Loads turns into the envelope it stands for: the synthetic        *)
(* dataset of an endpoint generated at a time (168 + 186 + 78 + 1 records  *)
(* that are a function of the two), or the rows merged from the pages of   *)
(* the upstream.  Two payloads are equal exactly when their forms are.     *)
(***************************************************************************)
\* the value of generate_mock_data(endpoint) called at time now
Synthetic(endpoint, now) ==
    [synthetic |-> TRUE, endpoint |-> endpoint, now |-> now, rows |-> <<>>]

\* {"data": all_data, "meta": {"total": len(all_data), "page": 1, "per_page": len(all_data)}}
Merged(endpoint, all_data) ==
    [synthetic |-> FALSE, endpoint |-> endpoint, now |-> 0, rows |-> all_data]

\* json.loads of the blob's text
Loads(p) ==
    IF p.synthetic THEN generate_mock_data(p.endpoint, p.now)
    ELSE Envelope(p.rows, Len(p.rows), Len(p.rows))

(***************************************************************************)
(* The upstream API: for each collection a fixed list of pages.  A page    *)
(* request is answered with the page and meta.last_page, or fails.         *)
(***************************************************************************)
LiveContact(id) ==
    [id |-> id, first_name |-> Txt("Live", -1), last_name |-> id.v,
     email |-> <<"live", id.v, "@example.org">>, phone |-> <<"+1555", id.v>>,
     created_at |-> 0]

LiveTransaction(n, amount, contact) ==
    [id |-> PyInt(n), amount |-> amount, status |-> "succeeded",
     contact_id |-> contact, campaign_id |-> PyInt(1), created_at |-> 0]

LivePlan(n, amount, interval, status, contact) ==
    [id |-> PyInt(n), amount |-> amount, interval |-> interval,
     status |-> status, contact_id |-> contact, created_at |-> 0]

\* three contacts on two pages; five transactions, two of them of a contact
\* the contacts do not list; one active plan
UpstreamPages(endpoint) ==
    IF endpoint = "contacts" THEN
        << <<LiveContact(PyInt(1)), LiveContact(PyInt(2))>>, <<LiveContact(PyInt(3))>> >>
    ELSE IF endpoint = "transactions" THEN
        << <<LiveTransaction(1, 10000, PyInt(1)),
             LiveTransaction(2, 9671, PyInt(1)),
             LiveTransaction(3, 5000, PyInt(2)),
             LiveTransaction(4, 2500, PyInt(4)),
             LiveTransaction(5, 1500, PyInt(4))>> >>
    ELSE IF endpoint = "plans" THEN
        << <<LivePlan(1, 2500, "monthly", "active", PyInt(1))>> >>
    ELSE
        << <<[id |-> PyInt(1), title |-> "Live campaign", goal |-> 100000,
              raised |-> 22171, status |-> "active", created_at |-> 0]>> >>

\* An upstream: the pages of each collection, and how its responses report
\* that more pages follow: by the page count meta.last_page ("last_page") or
\* by a next-page marker only ("next").
Upstream(pages, style) == [pages |-> pages, style |-> style]

DefaultUpstream ==
    Upstream([e \in {"contacts", "transactions", "plans", "campaigns"} |-> UpstreamPages(e)],
             "last_page")

\* response.json() of a successful request for page `page`: data, and of meta
\* the field last_page, when the upstream reports it
UpstreamResponse(up, endpoint, page) ==
    [data |-> up.pages[endpoint][page],
     meta |-> [last_page |-> IF up.style = "last_page"
                             THEN Some(Len(up.pages[endpoint])) ELSE None,
               has_next |-> page < Len(up.pages[endpoint])]]

\* (mutant) the page count of the response is not read
LastPage_ignored(meta) == 1

\* meta.get('last_page', 1)
LastPage(meta) == IF meta.last_page = None THEN 1 ELSE meta.last_page[1]

(***************************************************************************)
(* Snapshot store.  blobs maps the names of the bucket's objects to their  *)
(* content.  json.dumps followed by json.loads returns the payload as it   *)
(* was: every payload here is made of JSON values.  A summary is stored    *)
(* as the dict itself, a collection in the form Loads reads.               *)
(***************************************************************************)
\* f"givebutter-data/{integration_id}/{data_type}/{timestamp}.json"
BlobName(data_type, timestamp) == [dir |-> data_type, file |-> timestamp]

\* blob.upload_from_string: creates the object or replaces its content
Upload(blobs, name, data) ==
    [n \in DOMAIN blobs \cup {name} |-> IF n = name THEN data ELSE blobs[n]]

\* ok = FALSE: the upload raises and the exception is re-raised
store_data_in_gcs(blobs, data_type, data, now, ok) ==
    IF ok
    THEN [raised |-> FALSE,
          blobs |-> Upload(blobs, BlobName(data_type, strftime(now)), data)]
    ELSE [raised |-> TRUE, blobs |-> blobs]

\* bucket.list_blobs(prefix=...)
ListBlobs(blobs, data_type) == {n \in DOMAIN blobs : n.dir = data_type}

\* (mutant) the blob of the smallest name
LatestBlob_oldest(names) == CHOOSE n \in names : \A m \in names : ~StrLess(m.file, n.file)

\* max(blobs, key=lambda b: b.name)
LatestBlob(names) == CHOOSE n \in names : \A m \in names : ~StrLess(n.file, m.file)

\* ok = FALSE: listing, download or parsing raises; the handler returns None
get_latest_data_from_gcs(blobs, data_type, ok) ==
    IF ~ok THEN None
    ELSE IF ListBlobs(blobs, data_type) = {} THEN None
    ELSE Some(blobs[LatestBlob(ListBlobs(blobs, data_type))])

\* x.get('data', []) if x else []
DataOf(opt) == IF opt = None THEN <<>> ELSE Loads(opt[1]).data

(***************************************************************************)
(* The production layout (STORAGE_BUCKET == 'wlmn-donor-data'): summary,   *)
(* contacts and transactions are read from one blob each, written by       *)
(* another service.  An amount of dollars in such a blob is a JSON number   *)
(* with two decimals; it is held here as its count d of hundredths, which  *)
(* stands for the double nearest to d / 100.                               *)
(***************************************************************************)
RECURSIVE Pow2(_)
Pow2(n) == IF n = 0 THEN 1 ELSE 2 * Pow2(n - 1)

RECURSIVE Pow2Mod100(_)
Pow2Mod100(n) == IF n = 0 THEN 1 ELSE (2 * Pow2Mod100(n - 1)) % 100

\* int(x * 100) for the double x nearest to d / 100, 0 <= d < 2^27, in IEEE 754
\* binary64 arithmetic.  With 2^e <= d / 100 < 2^(e + 1), x is d / 100 rounded
\* to a multiple of 2^(e - 52); the error of x times 100 is -r / 2^(52 - e) when
\* x was rounded down, r being the remainder of d * 2^(52 - e) by 100; the
\* doubles next to d are 64 / 2^(52 - e) apart when d < 128 * 2^e (and twice
\* that otherwise), so that the product is rounded to the double below d, and
\* truncated to d - 1, exactly when 32 < r < 50 and d < 128 * 2^e.
IntOfTimes100(d) ==
    IF d = 0 THEN 0
    ELSE LET Scaled(e) == IF e >= 0 THEN [num |-> d, unit |-> Pow2(e)]
                          ELSE [num |-> d * Pow2(-e), unit |-> 1]
             e == CHOOSE e \in -7..20 :
                      /\ 100 * Scaled(e).unit <= Scaled(e).num
                      /\ Scaled(e).num < 200 * Scaled(e).unit
             r == ((d % 100) * Pow2Mod100(52 - e)) % 100
         IN  IF Scaled(e).num < 128 * Scaled(e).unit /\ 32 < r /\ r < 50
             THEN d - 1
             ELSE d

\* d.get(key, default)
Get(d, key, default) == IF key \in DOMAIN d THEN d[key] ELSE default

\* f"donor-sync/production/{data_type}_data.json"
ProductionName(data_type) == [dir |-> "production", file |-> data_type]

\* get_latest_data_from_gcs in the production layout, for summary, contacts and
\* transactions (the contacts and the transactions of the blob are lists).
\* ok: no call of the storage client raises
get_latest_data_from_gcs_production(bucket, data_type, ok) ==
    IF ~ok \/ ProductionName(data_type) \notin DOMAIN bucket THEN None
    ELSE LET data == bucket[ProductionName(data_type)]
         IN  IF data_type = "summary"
             THEN Some([total_donors |-> Get(data, "total_donors", 0),
                        total_transactions |-> Get(data, "total_donations", 0),
                        total_amount_cents |-> IntOfTimes100(Get(data, "total_amount", 0)),
                        total_amount_dollars |-> Get(data, "total_amount", 0),
                        active_recurring_plans |-> Get(data, "recurring_donors", 0),
                        last_updated |-> Get(data, "last_sync", None),
                        sync_status |-> Get(data, "sync_status", "success")])
             ELSE Some([data |-> Get(data, data_type, <<>>)])

(***************************************************************************)
(* Reconciler, summary side (generate_donor_summary).                      *)
(***************************************************************************)
\* (mutant) only the contacts are counted
donor_ids_of_contacts(contacts, transactions) ==
    {contacts[i].id : i \in {j \in DOMAIN contacts : Truthy(contacts[j].id)}}

\* the set donor_ids: the truthy ids of contacts and contact_ids of transactions
donor_ids(contacts, transactions) ==
    {contacts[i].id : i \in {j \in DOMAIN contacts : Truthy(contacts[j].id)}}
    \cup {transactions[i].contact_id :
            i \in {j \in DOMAIN transactions : Truthy(transactions[j].contact_id)}}

\* (mutant) every plan counts, whatever its status
IsActive_any(plan) == TRUE

\* plan.get('status') == 'active'
IsActive(plan) == plan.status = "active"

\* total_amount / 100 if total_amount > 0 else 0, as units and hundredths
Dollars(total_amount) ==
    IF total_amount > 0
    THEN [units |-> total_amount \div 100, hundredths |-> total_amount % 100]
    ELSE [units |-> 0, hundredths |-> 0]

\* (mutant) the error list is attached as it is, and every plan is counted
Summary_unfiltered(contacts, transactions, plans, status, errors, now) ==
    LET total_amount == SumSeq([i \in DOMAIN transactions |-> transactions[i].amount])
    IN  [total_donors |-> Cardinality(donor_ids(contacts, transactions)),
         total_transactions |-> Len(transactions),
         total_amount_cents |-> total_amount,
         total_amount_dollars |-> Dollars(total_amount),
         active_recurring_plans |-> Len(plans),
         last_updated |-> now,
         sync_status |-> status,
         sync_errors |-> Some(errors)]

\* (mutant) the count of the transactions depends on the time of the computation
Summary_dated(contacts, transactions, plans, status, errors, now) ==
    LET total_amount == SumSeq([i \in DOMAIN transactions |-> transactions[i].amount])
    IN  [total_donors |-> Cardinality(donor_ids(contacts, transactions)),
         total_transactions |-> Len(transactions) + now,
         total_amount_cents |-> total_amount,
         total_amount_dollars |-> Dollars(total_amount),
         active_recurring_plans |-> Len(SelectSeq(plans, IsActive)),
         last_updated |-> now,
         sync_status |-> status,
         sync_errors |-> IF errors # <<>> THEN Some(errors) ELSE None]

\* the dict `summary`
Summary(contacts, transactions, plans, status, errors, now) ==
    LET total_amount == SumSeq([i \in DOMAIN transactions |-> transactions[i].amount])
    IN  [total_donors |-> Cardinality(donor_ids(contacts, transactions)),
         total_transactions |-> Len(transactions),
         total_amount_cents |-> total_amount,
         total_amount_dollars |-> Dollars(total_amount),
         active_recurring_plans |-> Len(SelectSeq(plans, IsActive)),
         last_updated |-> now,
         sync_status |-> status,
         sync_errors |-> IF errors # <<>> THEN Some(errors) ELSE None]

(***************************************************************************)
(* Reconciler, listing side (get_donor_data).                              *)
(***************************************************************************)
\* active_plans_by_contact.get(contact_id, [])
ActivePlansOf(plans, contact_id) ==
    LET Linked(plan) ==
            /\ IsActive(plan)
            /\ Truthy(plan.contact_id)
            /\ Str(plan.contact_id) = contact_id
    IN  SelectSeq(plans, Linked)

\* (mutant) the lookup is keyed by the raw contact_id, not by str(contact_id)
TransactionsOf_raw(transactions, contact_id) ==
    LET Linked(txn) == txn.contact_id = contact_id
    IN  SelectSeq(transactions, Linked)

\* contact_transactions.get(contact_id, [])
TransactionsOf(transactions, contact_id) ==
    LET Linked(txn) ==
            /\ Str(txn.contact_id) # PyStr("", -1)
            /\ Str(txn.contact_id) = contact_id
    IN  SelectSeq(transactions, Linked)

\* (mutant) the interval of the last of the plans
FrequencyOf_last(contact_plans) ==
    IF "interval" \in DOMAIN contact_plans[Len(contact_plans)]
    THEN contact_plans[Len(contact_plans)].interval
    ELSE "monthly"

\* contact_plans[0].get('interval', 'monthly')
FrequencyOf(contact_plans) ==
    IF "interval" \in DOMAIN contact_plans[1] THEN contact_plans[1].interval
    ELSE "monthly"

\* f"{first_name} {last_name}".strip() or "Anonymous"
DisplayName(contact) ==
    IF contact.first_name = Txt("", -1) /\ contact.last_name = Txt("", -1)
    THEN <<Txt("Anonymous", -1)>>
    ELSE <<contact.first_name, contact.last_name>>

\* the dict enriched_contact
EnrichedContact(contact, transactions, plans) ==
    LET contact_id == Str(contact.id)
        contact_txns == TransactionsOf(transactions, contact_id)
        contact_plans == ActivePlansOf(plans, contact_id)
        is_recurring == Len(contact_plans) > 0
    IN  [id |-> contact_id,
         name |-> DisplayName(contact),
         email |-> contact.email,
         phone |-> contact.phone,
         created_at |-> contact.created_at,
         isRecurring |-> is_recurring,
         recurringFrequency |->
             IF is_recurring THEN Some(FrequencyOf(contact_plans)) ELSE None,
         stats |->
             [total_contributions |->
                  SumSeq([i \in DOMAIN contact_txns |-> contact_txns[i].amount]),
              recurring_contributions |->
                  SumSeq([i \in DOMAIN contact_plans |-> contact_plans[i].amount]),
              contribution_count |-> Len(contact_txns),
              active_plans |-> Len(contact_plans),
              is_recurring |-> is_recurring]]

\* the list enriched_contacts
EnrichedContacts(contacts, transactions, plans) ==
    [i \in DOMAIN contacts |-> EnrichedContact(contacts[i], transactions, plans)]

Min(a, b) == IF a < b THEN a ELSE b

\* (mutant) the slice ends one element early
Slice_short(s, offset, limit) == SubSeq(s, offset + 1, Min(offset + limit, Len(s)) - 1)

\* s[offset:offset + limit], for offset >= 0 and limit >= 1
Slice(s, offset, limit) == SubSeq(s, offset + 1, Min(offset + limit, Len(s)))

Page(data, total, limit, offset, has_more) ==
    [op |-> "get_donor_data", success |-> TRUE, data |-> data,
     meta |-> [total |-> total, page |-> (offset \div limit) + 1, per_page |-> limit,
               has_more |-> has_more]]

\* (mutant) the check `if not contacts_data` is missing: None.get raises, and the
\* handler answers with status 500
get_donor_data_unchecked(bucket, limit, offset, reads) ==
    LET contacts_data == get_latest_data_from_gcs(bucket, "contacts", "contacts" \in reads)
        contacts == DataOf(contacts_data)
        transactions ==
            DataOf(get_latest_data_from_gcs(bucket, "transactions", "transactions" \in reads))
        plans == DataOf(get_latest_data_from_gcs(bucket, "plans", "plans" \in reads))
        enriched_contacts == EnrichedContacts(contacts, transactions, plans)
    IN  IF contacts_data = None
        THEN [op |-> "get_donor_data", success |-> FALSE, data |-> <<>>,
              meta |-> [total |-> 0, page |-> 0, per_page |-> 0, has_more |-> FALSE]]
        ELSE Page(Slice(enriched_contacts, offset, limit), Len(enriched_contacts),
                  limit, offset, offset + limit < Len(enriched_contacts))

\* GET /api/donor-wall/data, for limit >= 1 and offset >= 0.  reads: the data
\* types whose read succeeds
get_donor_data(bucket, limit, offset, reads) ==
    LET contacts_data == get_latest_data_from_gcs(bucket, "contacts", "contacts" \in reads)
        contacts == DataOf(contacts_data)
        transactions ==
            DataOf(get_latest_data_from_gcs(bucket, "transactions", "transactions" \in reads))
        plans == DataOf(get_latest_data_from_gcs(bucket, "plans", "plans" \in reads))
        enriched_contacts == EnrichedContacts(contacts, transactions, plans)
    IN  IF contacts_data = None
        THEN Page(<<>>, 0, limit, offset, FALSE)
        ELSE Page(Slice(enriched_contacts, offset, limit), Len(enriched_contacts),
                  limit, offset, offset + limit < Len(enriched_contacts))

Error(kind, about) == [kind |-> kind, about |-> about]

\* G is the record of the globals and the bucket a handler works on:
\*   status, errors, last (sync_status, sync_errors, last_sync_time), blobs.
\* reads: the data types whose read succeeds; sumOk: the summary's upload succeeds.
\* (The campaigns snapshot is read as well; nothing uses the result.)
generate_donor_summary(G, now, reads, sumOk) ==
    LET contacts == DataOf(get_latest_data_from_gcs(G.blobs, "contacts", "contacts" \in reads))
        transactions ==
            DataOf(get_latest_data_from_gcs(G.blobs, "transactions", "transactions" \in reads))
        plans == DataOf(get_latest_data_from_gcs(G.blobs, "plans", "plans" \in reads))
        summary == Summary(contacts, transactions, plans, G.status, G.errors, now)
        st == store_data_in_gcs(G.blobs, "summary", summary, now, sumOk)
    IN  IF st.raised
        THEN [G EXCEPT !.errors = Append(@, Error("Summary Generation Error", "summary"))]
        ELSE [G EXCEPT !.blobs = st.blobs]

(***************************************************************************)
(* State.                                                                  *)
(***************************************************************************)
VARIABLES
    sync_status,      \* "idle", "syncing", "completed" or "failed"
    sync_errors,      \* the list sync_errors
    last_sync_time,   \* None or Some(time)
    blobs,            \* the bucket: blob name -> content
    scheduler,        \* TRUE once startup_event has started the scheduler
    api_key,          \* whether GIVEBUTTER_API_KEY is configured
    clock,            \* the current time
    tasks,            \* the invocations of sync_all_data, in the order of their triggers
    transitions,      \* history: the pairs <<old, new>> of every assignment to sync_status
    log,              \* history: the steps of the cycle that entered "syncing" last
    faults,           \* history: the number of failures the environment has produced
    resp,             \* the response of the last request to the query surface
    upstream,         \* the upstream API this run of the service talks to
    requests          \* history: the answered page requests of the cycle that entered
                      \* "syncing" last

vars ==
    <<sync_status, sync_errors, last_sync_time, blobs, scheduler, api_key, clock,
      tasks, transitions, log, faults, resp, upstream, requests>>

Globals ==
    [status |-> sync_status, errors |-> sync_errors, last |-> last_sync_time,
     blobs |-> blobs, transitions |-> transitions, log |-> log, faults |-> faults,
     requests |-> requests]

Commit(G) ==
    /\ G.faults <= MaxFaults
    /\ faults' = G.faults
    /\ sync_status' = G.status
    /\ sync_errors' = G.errors
    /\ last_sync_time' = G.last
    /\ blobs' = G.blobs
    /\ transitions' = G.transitions
    /\ log' = G.log
    /\ requests' = G.requests

\* an invocation of sync_all_data that the event loop has not started yet
NewTask ==
    [pc |-> "scheduled", idx |-> 0, page |-> 0, total_pages |-> 0, all_data |-> <<>>]

\* sync_status = s
SetStatus(G, s) ==
    [G EXCEPT !.status = s, !.transitions = @ \cup {<<G.status, s>>}]

\* a step of a cycle: op is "fetch" (poll_givebutter_api has returned; fallback:
\* with the synthetic dataset, after an error), "put" (store_data_in_gcs was
\* called with the blob name; ok: it returned) or "reconcile"
Event(op, what, name, fallback, ok) ==
    [op |-> op, what |-> what, name |-> name, fallback |-> fallback, ok |-> ok]

Logged(G, e) == [G EXCEPT !.log = Append(@, e)]

\* client.get(..., params={'page': page, 'per_page': per_page}) was answered
\* (ok) or has raised
Requested(G, endpoint, page, ok) ==
    [G EXCEPT !.requests =
        Append(@, [endpoint |-> endpoint, page |-> page, per_page |-> per_page, ok |-> ok])]

\* the environment has produced n more failures
Faulted(G, n) == [G EXCEPT !.faults = @ + n]

ReadTypes == {"contacts", "transactions", "plans"}

\* the failures of one run of generate_donor_summary: its failed reads count
\* as one failure of the store
SummaryFaults(reads, sumOk) ==
    (IF reads # ReadTypes THEN 1 ELSE 0) + (IF sumOk THEN 0 ELSE 1)

\* In the runs of the service as a whole, the reads of one run of
\* generate_donor_summary succeed together or fail together.
Outage == {ReadTypes, {}}

(***************************************************************************)
(* sync_all_data.  io holds what the environment decides during one        *)
(* segment: api_key, bad_upload (the data type whose upload raises, if it  *)
(* is attempted; a cycle ends at its first failed upload) and reads (the   *)
(* data types whose read succeeds).                                        *)
(***************************************************************************)
\* (mutant) the guard is missing
AlreadySyncing_never(status) == FALSE

\* the guard `if sync_status == "syncing"`
AlreadySyncing(status) == status = "syncing"

\* sync_status = "syncing"; sync_errors = []
EnterSyncing(G) ==
    [SetStatus(G, "syncing") EXCEPT !.errors = <<>>, !.log = <<>>, !.requests = <<>>]

\* (mutant) the handler swallows the exception: no `raise`
SyncFailed_returns(G, task, cause) ==
    [G |-> [SetStatus(G, "failed") EXCEPT !.errors = Append(@, Error("Sync Error", cause))],
     task |-> [task EXCEPT !.pc = "returned"]]

\* (mutant) the handler resets the state instead of marking the failure
SyncFailed_idle(G, task, cause) ==
    [G |-> [SetStatus(G, "idle") EXCEPT !.errors = Append(@, Error("Sync Error", cause))],
     task |-> [task EXCEPT !.pc = "raised"]]

\* (mutant) the handler records the error and leaves the state as it is
SyncFailed_stuck(G, task, cause) ==
    [G |-> [G EXCEPT !.errors = Append(@, Error("Sync Error", cause))],
     task |-> [task EXCEPT !.pc = "raised"]]

\* (mutant) the handler marks the failure and records no message
SyncFailed_silent(G, task, cause) ==
    [G |-> SetStatus(G, "failed"),
     task |-> [task EXCEPT !.pc = "raised"]]

\* the handler `except Exception as e` of sync_all_data, then `raise`
SyncFailed(G, task, cause) ==
    [G |-> [SetStatus(G, "failed") EXCEPT !.errors = Append(@, Error("Sync Error", cause))],
     task |-> [task EXCEPT !.pc = "raised"]]

\* (mutant) the completion time is not recorded
SyncFinish_unstamped(G, task, now, io) ==
    LET G0 == Faulted(Logged(G, Event("reconcile", "summary", None, FALSE, TRUE)),
                      SummaryFaults(io.reads, io.bad_upload # "summary"))
        G1 == generate_donor_summary(G0, now, io.reads, io.bad_upload # "summary")
        G2 == Logged(G1, Event("put", "summary", Some(BlobName("summary", strftime(now))),
                               FALSE, io.bad_upload # "summary"))
    IN  [G |-> SetStatus(G2, "completed"),
         task |-> [task EXCEPT !.pc = "returned"]]

SyncFinish_early(G, task, now, io) ==
    LET G0 == Faulted(Logged(G, Event("reconcile", "summary", None, FALSE, TRUE)),
                      SummaryFaults(io.reads, io.bad_upload # "summary"))
        G1 == generate_donor_summary(SetStatus(G0, "completed"), now, io.reads,
                                     io.bad_upload # "summary")
        G2 == Logged(G1, Event("put", "summary", Some(BlobName("summary", strftime(now))),
                               FALSE, io.bad_upload # "summary"))
    IN  [G |-> [G2 EXCEPT !.last = Some(now)],
         task |-> [task EXCEPT !.pc = "returned"]]

\* generate_donor_summary(), last_sync_time = now, sync_status = "completed"
SyncFinish(G, task, now, io) ==
    LET G0 == Faulted(Logged(G, Event("reconcile", "summary", None, FALSE, TRUE)),
                      SummaryFaults(io.reads, io.bad_upload # "summary"))
        G1 == generate_donor_summary(G0, now, io.reads, io.bad_upload # "summary")
        G2 == Logged(G1, Event("put", "summary", Some(BlobName("summary", strftime(now))),
                               FALSE, io.bad_upload # "summary"))
    IN  [G |-> [SetStatus(G2, "completed") EXCEPT !.last = Some(now)],
         task |-> [task EXCEPT !.pc = "returned"]]

RECURSIVE PollCall(_, _, _, _, _)
RECURSIVE AfterPoll(_, _, _, _, _, _, _)
\* `data = await poll_givebutter_api(data_type)` up to its first page request
PollCall(G, task, idx, now, io) ==
    IF ~io.api_key
    THEN AfterPoll(G, task, idx, Synthetic(DataTypes[idx], now), FALSE, now, io)
    ELSE [G |-> G,
          task |-> [task EXCEPT !.pc = "awaiting", !.idx = idx, !.page = 1,
                                !.total_pages = 1, !.all_data = <<>>]]

\* (mutant) a failed upload does not end the cycle
AfterPoll_continues(G, task, idx, data, fallback, now, io) ==
    LET data_type == DataTypes[idx]
        G1 == Logged(G, Event("fetch", data_type, None, fallback, TRUE))
        st == store_data_in_gcs(G1.blobs, data_type, data, now, io.bad_upload # data_type)
        G2 == Logged([G1 EXCEPT !.blobs = st.blobs],
                     Event("put", data_type, Some(BlobName(data_type, strftime(now))),
                           fallback, ~st.raised))
        G3 == IF st.raised THEN Faulted(G2, 1) ELSE G2
    IN  IF idx < Len(DataTypes) THEN PollCall(G3, task, idx + 1, now, io)
        ELSE SyncFinish(G3, task, now, io)

\* from the return of poll_givebutter_api for DataTypes[idx]: store it, go on
AfterPoll(G, task, idx, data, fallback, now, io) ==
    LET data_type == DataTypes[idx]
        G1 == Logged(G, Event("fetch", data_type, None, fallback, TRUE))
        st == store_data_in_gcs(G1.blobs, data_type, data, now, io.bad_upload # data_type)
        G2 == Logged([G1 EXCEPT !.blobs = st.blobs],
                     Event("put", data_type, Some(BlobName(data_type, strftime(now))),
                           fallback, ~st.raised))
    IN  IF st.raised THEN SyncFailed(Faulted(G2, 1), task, data_type)
        ELSE IF idx < Len(DataTypes) THEN PollCall(G2, task, idx + 1, now, io)
        ELSE SyncFinish(G2, task, now, io)

sync_all_data(G, task, now, io) ==
    IF AlreadySyncing(G.status)
    THEN [G |-> G, task |-> [task EXCEPT !.pc = "skipped"]]
    ELSE PollCall(EnterSyncing(G), task, 1, now, io)

\* (mutant) a failed request is not caught: it ends the cycle
PollResume_raises(G, task, ok, now, io) ==
    LET endpoint == DataTypes[task.idx]
        response == UpstreamResponse(io.upstream, endpoint, task.page)
        t1 == [task EXCEPT !.all_data = @ \o response.data,
                           !.total_pages = LastPage(response.meta),
                           !.page = @ + 1]
        G0 == Requested(G, endpoint, task.page, ok)
    IN  IF ~ok
        THEN SyncFailed(Faulted(G0, 1), task, endpoint)
        ELSE IF t1.page <= t1.total_pages
        THEN [G |-> G0, task |-> t1]
        ELSE AfterPoll(G0, t1, task.idx, Merged(endpoint, t1.all_data), FALSE, now, io)

\* (mutant) after a failed request the pages fetched so far are returned
PollResume_partial(G, task, ok, now, io) ==
    LET endpoint == DataTypes[task.idx]
        response == UpstreamResponse(io.upstream, endpoint, task.page)
        t1 == [task EXCEPT !.all_data = @ \o response.data,
                           !.total_pages = LastPage(response.meta),
                           !.page = @ + 1]
        G0 == Requested(G, endpoint, task.page, ok)
    IN  IF ~ok
        THEN AfterPoll([Faulted(G0, 1) EXCEPT
                            !.errors = Append(@, Error("API Error", endpoint))],
                       task, task.idx, Merged(endpoint, task.all_data), TRUE, now, io)
        ELSE IF t1.page <= t1.total_pages
        THEN [G |-> G0, task |-> t1]
        ELSE AfterPoll(G0, t1, task.idx, Merged(endpoint, t1.all_data), FALSE, now, io)

\* the page loop of poll_givebutter_api from the answer to the pending request:
\* ok = FALSE is a transport error, a timeout or a non-2xx status
PollResume(G, task, ok, now, io) ==
    LET endpoint == DataTypes[task.idx]
        response == UpstreamResponse(io.upstream, endpoint, task.page)
        t1 == [task EXCEPT !.all_data = @ \o response.data,
                           !.total_pages = LastPage(response.meta),
                           !.page = @ + 1]
        G0 == Requested(G, endpoint, task.page, ok)
    IN  IF ~ok
        THEN AfterPoll([Faulted(G0, 1) EXCEPT
                            !.errors = Append(@, Error("API Error", endpoint))],
                       task, task.idx, Synthetic(endpoint, now), TRUE, now, io)
        ELSE IF t1.page <= t1.total_pages
        THEN [G |-> G0, task |-> t1]
        ELSE AfterPoll(G0, t1, task.idx, Merged(endpoint, t1.all_data), FALSE, now, io)

\* (the reads are those of generate_donor_summary, which runs only in a
\* segment in which no collection upload has raised)
IOs ==
    {io \in [api_key : {api_key},
             upstream : {upstream},
             bad_upload : Range(DataTypes) \cup {"summary", "none"},
             reads : Outage] :
        io.bad_upload \notin {"summary", "none"} => io.reads = ReadTypes}

(***************************************************************************)
(* Query surface.  A handler returns the globals it leaves and its         *)
(* response.                                                               *)
(***************************************************************************)
\* the dict returned when no summary can be read
DefaultSummary(status, now) ==
    [total_donors |-> 0, total_transactions |-> 0, total_amount_cents |-> 0,
     total_amount_dollars |-> Dollars(0), active_recurring_plans |-> 0,
     last_updated |-> now, sync_status |-> status]

\* GET /api/donor-wall/summary.  q.first, q.second: the two reads of the summary
\* succeed; q.reads, q.sumOk: as for generate_donor_summary
get_donor_summary(G, now, q) ==
    LET first == get_latest_data_from_gcs(G.blobs, "summary", q.first)
        G1 == IF first = None
              THEN generate_donor_summary(
                       Faulted(G, SummaryFaults(q.reads, q.sumOk)
                                  + (IF q.second THEN 0 ELSE 1)),
                       now, q.reads, q.sumOk)
              ELSE G
        summary_data == IF first = None
                        THEN get_latest_data_from_gcs(G1.blobs, "summary", q.second)
                        ELSE first
    IN  [G |-> Faulted(G1, IF q.first THEN 0 ELSE 1),
         resp |-> [op |-> "get_donor_summary", success |-> TRUE,
                   data |-> IF summary_data # None THEN summary_data[1]
                            ELSE DefaultSummary(G1.status, now)]]

QueryIOs ==
    [first : BOOLEAN, second : BOOLEAN, sumOk : BOOLEAN, reads : SUBSET ReadTypes]

\* (the second read of the summary decides the response only)
ServiceQueryIOs == {q \in QueryIOs : q.second /\ q.reads \in Outage}

\* (mutant) the check of sync_status is missing
trigger_sync_unguarded(status) ==
    [scheduled |-> TRUE,
     resp |-> [op |-> "trigger_sync", success |-> TRUE,
               message |-> "Manual sync triggered", status |-> "syncing"]]

\* POST /api/donor-wall/sync: the answer, and whether sync_all_data is added to
\* the background tasks
trigger_sync(status) ==
    IF status = "syncing"
    THEN [scheduled |-> FALSE,
          resp |-> [op |-> "trigger_sync", success |-> TRUE,
                    message |-> "Sync already in progress", status |-> status]]
    ELSE [scheduled |-> TRUE,
          resp |-> [op |-> "trigger_sync", success |-> TRUE,
                    message |-> "Manual sync triggered", status |-> "syncing"]]

\* GET /api/donor-wall/sync-status
get_sync_status(G, sched) ==
    [op |-> "get_sync_status", success |-> TRUE,
     status |-> G.status,
     last_sync |-> G.last,
     next_sync |-> IF G.last # None /\ sched THEN Some(<<G.last[1], "+", 15>>) ELSE None,
     sync_errors |-> IF G.errors # <<>> THEN Some(G.errors) ELSE None]

(***************************************************************************)
(* Actions.                                                                *)
(***************************************************************************)
Init ==
    /\ sync_status = "idle"
    /\ sync_errors = <<>>
    /\ last_sync_time = None
    /\ blobs = << >>
    /\ scheduler = FALSE
    /\ api_key \in BOOLEAN
    /\ clock = 0
    /\ tasks = <<>>
    /\ transitions = {}
    /\ log = <<>>
    /\ faults = 0
    /\ resp = [op |-> "none"]
    /\ upstream = DefaultUpstream
    /\ requests = <<>>

\* startup_event: start the scheduler, create the task of the initial sync
Startup ==
    /\ ~scheduler
    /\ scheduler' = TRUE
    /\ tasks' = Append(tasks, NewTask)
    /\ UNCHANGED <<sync_status, sync_errors, last_sync_time, blobs, api_key, clock,
                   transitions, log, faults, resp, upstream, requests>>

\* the interval trigger of the job 'regular_sync' fires
TimerFire ==
    /\ scheduler
    /\ Len(tasks) < MaxTasks
    /\ tasks' = Append(tasks, NewTask)
    /\ UNCHANGED <<sync_status, sync_errors, last_sync_time, blobs, scheduler, api_key,
                   clock, transitions, log, faults, resp, upstream, requests>>

\* the event loop starts a scheduled invocation of sync_all_data (the scheduled
\* invocations are alike: the oldest one stands for any of them)
Invoke(t) ==
    /\ tasks[t].pc = "scheduled"
    /\ \A u \in 1..(t - 1) : tasks[u].pc # "scheduled"
    /\ \E io \in IOs :
         LET r == sync_all_data(Globals, tasks[t], clock, io)
         IN  /\ Commit(r.G)
             /\ tasks' = [tasks EXCEPT ![t] = r.task]
    /\ UNCHANGED <<scheduler, api_key, clock, resp, upstream>>

\* the pending page request of a running cycle is answered
Response(t) ==
    /\ tasks[t].pc = "awaiting"
    /\ \E ok \in BOOLEAN, io \in IOs :
         LET r == PollResume(Globals, tasks[t], ok, clock, io)
         IN  /\ Commit(r.G)
             /\ tasks' = [tasks EXCEPT ![t] = r.task]
    /\ UNCHANGED <<scheduler, api_key, clock, resp, upstream>>

\* a request to trigger_sync; an accepted one schedules an invocation
TriggerSync ==
    /\ scheduler
    /\ LET r == trigger_sync(sync_status)
       IN  IF r.scheduled
           THEN /\ Len(tasks) < MaxTasks
                /\ tasks' = Append(tasks, NewTask)
           ELSE tasks' = tasks
    /\ UNCHANGED <<sync_status, sync_errors, last_sync_time, blobs, scheduler, api_key,
                   clock, transitions, log, faults, resp, upstream, requests>>

\* a request to get_donor_summary
GetDonorSummary ==
    /\ scheduler
    /\ \E q \in ServiceQueryIOs : Commit(get_donor_summary(Globals, clock, q).G)
    /\ UNCHANGED <<scheduler, api_key, clock, tasks, resp, upstream>>

Tick ==
    /\ clock < MaxClock
    /\ clock' = clock + 1
    /\ UNCHANGED <<sync_status, sync_errors, last_sync_time, blobs, scheduler, api_key,
                   tasks, transitions, log, faults, resp, upstream, requests>>

Next ==
    \/ Startup
    \/ TimerFire
    \/ \E t \in DOMAIN tasks : Invoke(t)
    \/ \E t \in DOMAIN tasks : Response(t)
    \/ TriggerSync
    \/ GetDonorSummary
    \/ Tick

Spec == Init /\ [][Next]_vars

(***************************************************************************)
(* The store alone, written by any number of writers (instances of the     *)
(* service share the bucket) whose clocks disagree: the time of a put is   *)
(* any second of the range, whatever was put before.  log is the history   *)
(* of the puts.                                                            *)
(***************************************************************************)
StoreTypes == {"contacts", "plans"}

StorePayloads(data_type) ==
    {Merged(data_type, <<>>), Merged(data_type, <<LiveContact(PyInt(1))>>)}

StoreInit ==
    /\ sync_status = "idle"
    /\ sync_errors = <<>>
    /\ last_sync_time = None
    /\ blobs = << >>
    /\ scheduler = FALSE
    /\ api_key = TRUE
    /\ clock = 0
    /\ tasks = <<>>
    /\ transitions = {}
    /\ log = <<>>
    /\ faults = 0
    /\ resp = [op |-> "none"]
    /\ upstream = DefaultUpstream
    /\ requests = <<>>

\* a call of store_data_in_gcs that returns, at the time `at` of its writer
StorePut ==
    /\ Len(log) < MaxPuts
    /\ \E data_type \in StoreTypes, at \in 0..MaxClock :
         \E data \in StorePayloads(data_type) :
            /\ clock' = at
            /\ blobs' = store_data_in_gcs(blobs, data_type, data, at, TRUE).blobs
            /\ log' = Append(log, [what |-> data_type, at |-> at, data |-> data])
    /\ UNCHANGED <<sync_status, sync_errors, last_sync_time, scheduler, api_key, tasks,
                   transitions, faults, resp, upstream, requests>>

SpecStore == StoreInit /\ [][StorePut]_vars

(***************************************************************************)
(* The query surface over a bucket that earlier runs of the service have   *)
(* filled.  The service has restarted: its initial cycle waits for the     *)
(* first page of contacts, and requests are served meanwhile.  The         *)
(* collections of the bucket are any records of the upstream's shape, up   *)
(* to MaxRows in all, or the dataset of UpstreamPages.  A run serves one   *)
(* request; resp is its response.                                          *)
(***************************************************************************)
\* identities as the upstream's JSON can carry them
IdVals == {PyInt(1), PyStr("", 1), PyInt(2), PyNone}

ContactRows == {LiveContact(id) : id \in IdVals}

\* (an amount is any integer: -250 is a refund)
TransactionRows ==
    {LiveTransaction(1, amount, id) : amount \in {100, -250}, id \in IdVals}

\* (the last one is an active plan of contact 1 that has no interval)
PlanRows ==
    {LivePlan(1, terms[1], terms[2], status, id) :
        terms \in {<<500, "monthly">>, <<700, "weekly">>},
        status \in {"active", "cancelled"},
        id \in IdVals \ {PyInt(2)}}
    \cup {[id |-> PyInt(1), amount |-> 300, status |-> "active",
           contact_id |-> PyInt(1), created_at |-> 0]}

RECURSIVE Concat(_)
Concat(pages) == IF pages = <<>> THEN <<>> ELSE Head(pages) \o Concat(Tail(pages))

\* the bucket with one snapshot of each collection, stored at second 0
Bucket(contacts, transactions, plans) ==
    LET rows == [contacts |-> contacts, transactions |-> transactions, plans |-> plans]
    IN  [n \in {BlobName(t, strftime(0)) : t \in ReadTypes} |-> Merged(n.dir, rows[n.dir])]

\* what a cycle stores when the upstream answers every request
UpstreamBucket ==
    Bucket(Concat(UpstreamPages("contacts")), Concat(UpstreamPages("transactions")),
           Concat(UpstreamPages("plans")))

\* three transactions of one contact, of 100.00, 96.71 and 25.00
AmountsBucket ==
    Bucket(<<LiveContact(PyInt(1))>>,
           <<LiveTransaction(1, 10000, PyInt(1)), LiveTransaction(2, 9671, PyInt(1)),
             LiveTransaction(3, 2500, PyInt(1))>>,
           <<>>)

QueryInit ==
    /\ sync_status = "syncing"
    /\ sync_errors = <<>>
    /\ last_sync_time = None
    /\ scheduler = TRUE
    /\ api_key = TRUE
    /\ clock = 1
    /\ tasks = <<[NewTask EXCEPT !.pc = "awaiting", !.idx = 1, !.page = 1,
                                 !.total_pages = 1]>>
    /\ transitions = {<<"idle", "syncing">>}
    /\ log = <<>>
    /\ faults = 0
    /\ resp = [op |-> "none"]
    /\ upstream = DefaultUpstream
    /\ requests = <<>>
    /\ \/ blobs = << >>
       \/ blobs = UpstreamBucket
       \/ blobs = AmountsBucket
       \/ \E c \in 0..MaxRows : \E t \in 0..(MaxRows - c) : \E p \in 0..(MaxRows - c - t) :
            \E contacts \in [1..c -> ContactRows] :
            \E transactions \in [1..t -> TransactionRows] :
            \E plans \in [1..p -> PlanRows] :
                blobs = Bucket(contacts, transactions, plans)

\* a request to get_donor_data
ServeDonorData ==
    /\ resp.op = "none"
    /\ \E limit \in 1..2, offset \in 0..2, reads \in SUBSET ReadTypes :
         resp' = get_donor_data(blobs, limit, offset, reads)
    /\ UNCHANGED <<sync_status, sync_errors, last_sync_time, blobs, scheduler, api_key,
                   clock, tasks, transitions, log, faults, upstream, requests>>

\* a request to get_donor_summary (any of its reads and its upload may fail:
\* the failures of the one request are not counted)
ServeDonorSummary ==
    /\ resp.op = "none"
    /\ \E q \in QueryIOs :
         LET r == get_donor_summary(Globals, clock, q)
         IN  /\ Commit([r.G EXCEPT !.faults = faults])
             /\ resp' = r.resp
    /\ UNCHANGED <<scheduler, api_key, clock, tasks, upstream>>

QueryNext ==
    \/ ServeDonorData
    \/ ServeDonorSummary

SpecQuery == QueryInit /\ [][QueryNext]_vars

(***************************************************************************)
(* One cycle against any upstream: the contacts are on up to MaxPages      *)
(* pages of 1, 2 or 100 records, and the upstream reports that more pages  *)
(* follow in either style.  The service has started and its initial sync   *)
(* is scheduled.                                                           *)
(***************************************************************************)
\* `pages` pages of `size` contacts each, numbered through
ContactPages(pages, size) ==
    [p \in 1..pages |-> [k \in 1..size |-> LiveContact(PyInt((p - 1) * size + k))]]

FetchUpstreams ==
    {Upstream([DefaultUpstream.pages EXCEPT !["contacts"] = ContactPages(pages, size)],
              style) :
        pages \in 1..MaxPages, size \in {1, 2, per_page}, style \in {"last_page", "next"}}

FetchInit ==
    /\ sync_status = "idle"
    /\ sync_errors = <<>>
    /\ last_sync_time = None
    /\ blobs = << >>
    /\ scheduler = TRUE
    /\ api_key = TRUE
    /\ clock = 0
    /\ tasks = <<NewTask>>
    /\ transitions = {}
    /\ log = <<>>
    /\ faults = 0
    /\ resp = [op |-> "none"]
    /\ upstream \in FetchUpstreams
    /\ requests = <<>>

FetchNext ==
    \/ \E t \in DOMAIN tasks : Invoke(t)
    \/ \E t \in DOMAIN tasks : Response(t)

SpecFetch == FetchInit /\ [][FetchNext]_vars

\* The event loop starts every task it holds, and every page request is
\* answered or raises (the client's timeout is 30 seconds): weak fairness of
\* Invoke and of Response, WF_vars(A) written as []<>~ENABLED <<A>>_vars \/
\* []<><<A>>_vars.  Invoke is enabled exactly when a task is scheduled, and
\* Response exactly when a task awaits a response (a step without a failure
\* is always possible).
FairSpecFetch ==
    /\ SpecFetch
    /\ \/ []<>(\A t \in DOMAIN tasks : tasks[t].pc # "scheduled")
       \/ []<><<\E t \in DOMAIN tasks : Invoke(t)>>_vars
    /\ \/ []<>(\A t \in DOMAIN tasks : tasks[t].pc # "awaiting")
       \/ []<><<\E t \in DOMAIN tasks : Response(t)>>_vars

(***************************************************************************)
(* Reads in the production layout: the bucket holds the blobs of the other *)
(* service, and one read is served.                                        *)
(***************************************************************************)
ProductionInit ==
    /\ sync_status = "idle"
    /\ sync_errors = <<>>
    /\ last_sync_time = None
    /\ scheduler = TRUE
    /\ api_key = TRUE
    /\ clock = 0
    /\ tasks = <<>>
    /\ transitions = {}
    /\ log = <<>>
    /\ faults = 0
    /\ resp = [op |-> "none"]
    /\ upstream = DefaultUpstream
    /\ requests = <<>>
    /\ \/ blobs = << >>
       \/ \E summary \in [total_donors : {0, 3}, total_donations : {0, 5},
                           total_amount : {0, 115, 5000, 22171},
                           recurring_donors : {0, 1}, last_sync : {Some(0)},
                           sync_status : {"success", "syncing"}] :
          \E n \in 0..2, m \in 0..1 :
              blobs = (ProductionName("summary") :> summary)
                      @@ (ProductionName("contacts") :>
                              [contacts |-> [k \in 1..n |-> LiveContact(PyInt(k))]])
                      @@ (ProductionName("transactions") :>
                              [transactions |->
                                   [k \in 1..m |-> LiveTransaction(k, 10000, PyInt(1))]])

\* one call of get_latest_data_from_gcs
ReadProduction ==
    /\ resp.op = "none"
    /\ \E data_type \in {"summary", "contacts", "transactions"}, ok \in BOOLEAN :
         resp' = [op |-> "get_latest", data_type |-> data_type,
                  result |-> get_latest_data_from_gcs_production(blobs, data_type, ok)]
    /\ UNCHANGED <<sync_status, sync_errors, last_sync_time, blobs, scheduler, api_key,
                   clock, tasks, transitions, log, faults, upstream, requests>>

SpecProduction == ProductionInit /\ [][ReadProduction]_vars

(***************************************************************************)
(* Properties of the sync cycle.                                           *)
(***************************************************************************)
Running == {t \in DOMAIN tasks : tasks[t].pc = "awaiting"}

FailedPuts == {i \in DOMAIN log : log[i].op = "put" /\ ~log[i].ok}

\* C1: single-flight.  At most one invocation of sync_all_data is inside a cycle
\* at any instant, and then the state is "syncing"; an invocation that starts
\* while the state is "syncing" returns at once and leaves the state, the error
\* list, the last-sync time, the bucket and the steps of the running cycle as
\* they were.
C1_SingleFlight ==
    /\ [](/\ Cardinality(Running) <= 1
          /\ Running # {} => sync_status = "syncing")
    /\ [][\A t \in DOMAIN tasks :
            (tasks[t].pc = "scheduled" /\ tasks'[t].pc # "scheduled"
             /\ sync_status = "syncing")
            => /\ tasks'[t].pc = "skipped"
               /\ UNCHANGED <<sync_status, sync_errors, last_sync_time, blobs, log,
                              transitions>>]_vars

\* an invocation was skipped while another one is inside its cycle
C1_Witness ==
    /\ Running # {}
    /\ \E t \in DOMAIN tasks : tasks[t].pc = "skipped"

SyncStates == {"idle", "syncing", "completed", "failed"}

AllowedTransitions ==
    {<<"idle", "syncing">>, <<"syncing", "completed">>, <<"syncing", "failed">>,
     <<"completed", "syncing">>, <<"failed", "syncing">>}

\* C2: the sync state is one of idle, syncing, completed, failed; every
\* assignment to it is one of idle->syncing, syncing->completed, syncing->failed,
\* completed->syncing, failed->syncing; and from completed or failed an
\* invocation of sync_all_data enters a new cycle.
C2_StateMachine ==
    /\ sync_status \in SyncStates
    /\ transitions \subseteq AllowedTransitions
    /\ sync_status \in {"completed", "failed"} =>
         <<sync_status, "syncing">> \in
             sync_all_data(Globals, NewTask, clock,
                           [api_key |-> TRUE, bad_upload |-> "none",
                            reads |-> ReadTypes]).G.transitions

\* a cycle has failed and the next one has run to completion
C2_Witness ==
    /\ <<"failed", "syncing">> \in transitions
    /\ sync_status = "completed"

\* C3: when the upload of a collection raises, it is the last step of its cycle
\* (no later collection is fetched or stored, no summary is computed or stored),
\* the state is "failed", the error list holds a message about the failure, and
\* the invocation has raised to its caller.
C3_UploadFailureAborts ==
    \A i \in FailedPuts :
        log[i].what # "summary" =>
            /\ i = Len(log)
            /\ sync_status = "failed"
            /\ Error("Sync Error", log[i].what) \in Range(sync_errors)
            /\ \E t \in DOMAIN tasks : tasks[t].pc = "raised"
            /\ Running = {}

\* the upload of the third collection has raised after two were stored
C3_Witness ==
    /\ Len(log) = 6
    /\ log[6] = Event("put", "plans", log[6].name, log[6].fallback, FALSE)

\* C4 (as claimed): when the upload of the summary raises after the four
\* collections were stored, the cycle ends "failed" with the error in the list.
C4_SummaryFailureFailsCycle ==
    \A i \in FailedPuts :
        log[i].what = "summary" =>
            /\ sync_status = "failed"
            /\ Error("Summary Generation Error", "summary") \in Range(sync_errors)

\* the steps of a cycle in which every upload succeeded
FullCycle ==
    <<"fetch", "put", "fetch", "put", "fetch", "put", "fetch", "put", "reconcile", "put">>

FullCycleTypes ==
    <<"contacts", "contacts", "transactions", "transactions", "plans", "plans",
      "campaigns", "campaigns", "summary", "summary">>

\* C5: a failed page request never ends a cycle.  A cycle ends "failed" only
\* through a failed upload; a cycle that has ended with every upload successful
\* has fetched and stored the four collections in order, has written the
\* summary and is "completed"; and what a cycle stores for a collection whose
\* fetch failed is the synthetic dataset of that collection.
C5_FetchFailureDoesNotAbort ==
    /\ sync_status = "failed" => \E i \in FailedPuts : log[i].what # "summary"
    /\ (sync_status # "syncing" /\ log # <<>> /\ FailedPuts = {}) =>
         /\ sync_status = "completed"
         /\ [i \in DOMAIN log |-> log[i].op] = FullCycle
         /\ [i \in DOMAIN log |-> log[i].what] = FullCycleTypes
    /\ \A i \in DOMAIN log :
         (log[i].op = "put" /\ log[i].ok /\ log[i].fallback) =>
             /\ log[i].name[1] \in DOMAIN blobs
             /\ \E c \in 0..MaxClock : blobs[log[i].name[1]] = Synthetic(log[i].what, c)

\* a cycle has completed although the fetch of its contacts had failed
C5_Witness ==
    /\ sync_status = "completed"
    /\ Len(log) = 10
    /\ log[1].fallback

\* C6 (as claimed): no step changes or removes a blob that exists, so every
\* upload creates a new blob.
C6_AppendOnly ==
    [][\A n \in DOMAIN blobs : n \in DOMAIN blobs' /\ blobs'[n] = blobs[n]]_vars

\* the fetches of the last cycle that fell back to the synthetic dataset
Fallbacks == {i \in DOMAIN log : log[i].op = "fetch" /\ log[i].fallback}

\* the last cycle has run to completion and every step of it but the fetch of
\* exactly one collection succeeded
OneFetchFailed ==
    /\ sync_status = "completed"
    /\ Len(log) = Len(FullCycle)
    /\ FailedPuts = {}
    /\ Cardinality(Fallbacks) = 1

\* C14 (as claimed): after a cycle in which the fetch of exactly one collection
\* raised and every other step succeeded, what the cycle stored for that
\* collection is its synthetic dataset and the error list holds exactly one
\* entry, which names that collection, whatever requests were served meanwhile.
C14_OneErrorForOneFailedFetch ==
    OneFetchFailed =>
        \A i \in Fallbacks :
            /\ \E c \in 0..MaxClock : blobs[log[i + 1].name[1]] = Synthetic(log[i].what, c)
            /\ sync_errors = <<Error("API Error", log[i].what)>>

\* the answered page requests of the running or last cycle for an endpoint
RequestsOf(endpoint) ==
    LET Of(request) == request.endpoint = endpoint IN SelectSeq(requests, Of)

\* the requests for the pages 1..n of an endpoint, in order, each answered
InOrder(endpoint, n) ==
    [p \in 1..n |-> [endpoint |-> endpoint, page |-> p, per_page |-> 100, ok |-> TRUE]]

\* the fetches of the cycle that returned what the upstream answered
LiveFetches == {i \in DOMAIN log : log[i].op = "fetch" /\ ~log[i].fallback}

\* every live fetch has requested the pages 1..P of its collection in order,
\* each once with page size 100, and what was stored for it is the
\* concatenation of the pages, no record twice
AllPagesFetched ==
    \A i \in LiveFetches :
        LET endpoint == log[i].what
            all == Concat(upstream.pages[endpoint])
        IN  /\ RequestsOf(endpoint) = InOrder(endpoint, Len(upstream.pages[endpoint]))
            /\ log[i + 1].ok =>
                  /\ Loads(blobs[log[i + 1].name[1]]).data = all
                  /\ Cardinality(Range(Loads(blobs[log[i + 1].name[1]]).data)) = Len(all)

\* C15 (as claimed): with a credential, against an upstream that reports its P
\* pages by a page count or by a next-page marker, fetch requests the pages
\* 1..P in order, each once with page size 100, stops after page P and returns
\* the concatenation of the pages.
C15_AllPagesByCountOrMarker == AllPagesFetched

\* C15 (amended): the same, against an upstream that reports its P pages by the
\* page count meta.last_page; and the requests of a collection are for the
\* pages 1, 2, ... in order at any time.
C15_AllPagesByCount ==
    /\ upstream.style = "last_page" => AllPagesFetched
    /\ \A e \in Range(DataTypes) :
          \A k \in DOMAIN RequestsOf(e) :
              /\ RequestsOf(e)[k].page = k
              /\ RequestsOf(e)[k].per_page = 100

\* the cycle has stored 300 contacts, fetched from three pages of 100
C15_Witness ==
    /\ upstream.style = "last_page"
    /\ Len(RequestsOf("contacts")) = 3
    /\ \E n \in DOMAIN blobs :
          /\ n.dir = "contacts"
          /\ ~blobs[n].synthetic
          /\ Len(blobs[n].rows) = 300

\* C16: a page request that fails is the last request for its collection in the
\* cycle (no further page, no retry), and what the fetch returns, and the
\* cycle stores, is the complete synthetic dataset of the collection, with
\* none of the records of the pages fetched before.
C16_FailureAbortsPagination ==
    \A k \in DOMAIN requests :
        ~requests[k].ok =>
            LET endpoint == requests[k].endpoint
                fetched == {i \in DOMAIN log : log[i].op = "fetch" /\ log[i].what = endpoint}
            IN  /\ \A j \in DOMAIN requests : j > k => requests[j].endpoint # endpoint
                /\ \A t \in DOMAIN tasks :
                      tasks[t].pc = "awaiting" => DataTypes[tasks[t].idx] # endpoint
                /\ fetched # {}
                /\ \A i \in fetched :
                      /\ log[i].fallback
                      /\ log[i + 1].ok =>
                            LET stored == Loads(blobs[log[i + 1].name[1]])
                            IN  /\ \E c \in 0..MaxClock :
                                      stored = generate_mock_data(endpoint, c)
                                /\ Range(stored.data)
                                      \cap Range(Concat(upstream.pages[endpoint])) = {}

\* the request for the third page of the contacts has failed after two pages
\* were fetched, and the synthetic contacts were stored
C16_Witness ==
    /\ Len(requests) >= 3
    /\ requests[3] = [endpoint |-> "contacts", page |-> 3, per_page |-> 100, ok |-> FALSE]
    /\ \E n \in DOMAIN blobs : n.dir = "contacts" /\ blobs[n].synthetic

\* a step that enters "syncing" leaves the error list empty, and get_sync_status
\* reports no errors after it
ErrorListClearedOnEntry ==
    (sync_status # "syncing" /\ sync_status' = "syncing") =>
        /\ sync_errors' = <<>>
        /\ get_sync_status(Globals', scheduler').sync_errors = None

\* a request to get_donor_summary whose reads and uploads all succeed
AllOk == [first |-> TRUE, second |-> TRUE, sumOk |-> TRUE, reads |-> ReadTypes]

\* the errors in the summary that get_donor_summary returns now
ErrorsServed ==
    LET data == get_donor_summary(Globals, clock, AllOk).resp.data
    IN  IF "sync_errors" \in DOMAIN data /\ data.sync_errors # None
        THEN Range(data.sync_errors[1])
        ELSE {}

\* C17 (as claimed): every transition into "syncing" empties the error list, so
\* that once a cycle has started no error of an earlier cycle is visible in
\* get_sync_status or in a summary: while the state is "syncing", the errors in
\* the summary that is served are errors of the running cycle.
C17_NoErrorOfEarlierCycleVisible ==
    /\ [][ErrorListClearedOnEntry]_vars
    /\ [](sync_status = "syncing" => ErrorsServed \subseteq Range(sync_errors))

\* the invocations that leave sync_all_data in this step with pc `how`
Leaving(how) ==
    {t \in DOMAIN tasks : tasks[t].pc # how /\ tasks'[t].pc = how}

\* C18: the last-sync time is assigned exactly by the step in which a cycle
\* goes from "syncing" to "completed", and the value is the time of that step,
\* which get_sync_status then reports; a step in which a cycle ends "failed" or
\* an invocation is skipped, and every other step, leaves it as it was.
C18_LastSyncOnlyOnCompletion ==
    [][/\ Leaving("returned") # {} =>
            /\ sync_status' = "completed"
            /\ <<"syncing", "completed">> \in transitions'
            /\ last_sync_time' = Some(clock)
            /\ get_sync_status(Globals', scheduler').last_sync = Some(clock)
       /\ Leaving("returned") = {} => last_sync_time' = last_sync_time
       /\ Leaving("raised") # {} => sync_status' = "failed"]_vars

\* a cycle has completed at time 0, a later cycle has failed at time 1, and
\* the last-sync time is still 0
C18_Witness ==
    /\ last_sync_time = Some(0)
    /\ clock = 1
    /\ sync_status = "failed"
    /\ <<"completed", "syncing">> \in transitions

\* s is a prefix of t
IsPrefix(s, t) == Len(s) <= Len(t) /\ s = SubSeq(t, 1, Len(s))

\* C19: the steps of a cycle are, in this order, fetch and store of contacts,
\* of transactions, of plans, of campaigns, then reconcile and store of the
\* summary; a step begins when the one before it has ended (while a fetch
\* waits for the upstream, the steps before it are done and no other has
\* begun); every store before the last step of the cycle has succeeded, so
\* the summary is computed and stored after the four collections were stored.
C19_StepsInOrder ==
    /\ IsPrefix([i \in DOMAIN log |-> log[i].op], FullCycle)
    /\ IsPrefix([i \in DOMAIN log |-> log[i].what], FullCycleTypes)
    /\ \A i \in DOMAIN log : (log[i].op = "put" /\ i < Len(log)) => log[i].ok
    /\ Cardinality(Running) <= 1
    /\ \A t \in Running : Len(log) = 2 * (tasks[t].idx - 1)
    /\ \A i \in DOMAIN log :
          log[i].op = "reconcile" =>
              /\ i = 9
              /\ \A j \in {2, 4, 6, 8} :
                    /\ log[j] = Event("put", DataTypes[j \div 2], log[j].name,
                                      log[j].fallback, TRUE)
                    /\ log[j].name[1] \in DOMAIN blobs

\* contacts and transactions are stored and the cycle waits for the plans
C19_Witness ==
    /\ Len(log) = 4
    /\ \E t \in Running : DataTypes[tasks[t].idx] = "plans"

\* C22: trigger_sync answers "Sync already in progress" and schedules nothing
\* exactly when the state is "syncing" at the request; otherwise it answers
\* "Manual sync triggered" and schedules one invocation of sync_all_data, the
\* entry point of the timer and of the startup trigger; an invocation enters a
\* cycle only when none is running, so that no two cycles run at once.
C22_TriggerCollapses ==
    /\ [](/\ trigger_sync(sync_status).scheduled = (sync_status # "syncing")
          /\ trigger_sync(sync_status).resp.message =
                (IF sync_status = "syncing" THEN "Sync already in progress"
                 ELSE "Manual sync triggered")
          /\ Cardinality(Running) <= 1)
    /\ [][/\ TriggerSync =>
               tasks' = (IF sync_status = "syncing" THEN tasks ELSE Append(tasks, NewTask))
          /\ \A t \in DOMAIN tasks :
                (tasks[t].pc = "scheduled" /\ tasks'[t].pc \notin {"scheduled", "skipped"})
                => sync_status # "syncing" /\ Running = {}]_vars

\* a cycle is running, a request to trigger_sync is answered "already in
\* progress" now, and an invocation scheduled before is still to start
C22_Witness ==
    /\ Running # {}
    /\ ~trigger_sync(sync_status).scheduled
    /\ \E t \in DOMAIN tasks : tasks[t].pc = "scheduled"

\* the ids of the synthetic dataset of a collection, generated at time now
MockIds(endpoint, now) == {row.id : row \in Range(generate_mock_data(endpoint, now).data)}

\* C26: the synthetic datasets are referentially consistent and of fixed size,
\* whenever they are generated: the contact_id of every synthetic transaction
\* and of every synthetic plan is the id of a synthetic contact, the
\* campaign_id of every synthetic transaction is the id of a synthetic
\* campaign, no id occurs twice in a collection, and two calls give the same
\* dataset but for created_at.  So it is for what a cycle has stored after a
\* failed fetch.
C26_SyntheticDataConsistent ==
    /\ \A now \in 0..MaxClock, then \in 0..MaxClock :
          LET contact_ids == MockIds("contacts", then)
              campaign_ids == MockIds("campaigns", then)
          IN  /\ \A txn \in Range(generate_mock_data("transactions", now).data) :
                    /\ txn.contact_id \in contact_ids
                    /\ txn.campaign_id \in campaign_ids
              /\ \A plan \in Range(generate_mock_data("plans", now).data) :
                    plan.contact_id \in contact_ids
              /\ \A endpoint \in Range(DataTypes) :
                    LET this == generate_mock_data(endpoint, now).data
                        that == generate_mock_data(endpoint, then).data
                    IN  /\ Cardinality(MockIds(endpoint, now)) = Len(this)
                        /\ generate_mock_data(endpoint, now).meta
                              = generate_mock_data(endpoint, then).meta
                        /\ [i \in DOMAIN this |-> [this[i] EXCEPT !.created_at = 0]]
                              = [i \in DOMAIN that |-> [that[i] EXCEPT !.created_at = 0]]
                        /\ \A row \in Range(this) : row.created_at = now
              /\ Len(generate_mock_data("contacts", now).data) = 168
              /\ Len(generate_mock_data("transactions", now).data) = 186
              /\ Len(generate_mock_data("plans", now).data) = 78
              /\ Len(generate_mock_data("campaigns", now).data) = 1
    /\ \A n \in DOMAIN blobs :
          ("synthetic" \in DOMAIN blobs[n] /\ blobs[n].synthetic) =>
              LET ids == MockIds(n.dir, clock)
                  contact_ids == MockIds("contacts", clock)
              IN  \A row \in Range(Loads(blobs[n]).data) :
                      /\ row.id \in ids
                      /\ "contact_id" \in DOMAIN row => row.contact_id \in contact_ids

\* after two failed fetches the cycle has stored the synthetic contacts and
\* the synthetic transactions
C26_Witness ==
    \E n \in DOMAIN blobs, m \in DOMAIN blobs :
        /\ n.dir = "contacts" /\ blobs[n].synthetic
        /\ m.dir = "transactions" /\ blobs[m].synthetic
        /\ Len(Loads(blobs[m]).data) = 186

\* C28: every cycle that enters "syncing" leaves it: when every page request
\* is answered or raises, the state becomes "completed" or "failed", and a
\* request to trigger_sync is then accepted again.
C28_CycleTerminates ==
    sync_status = "syncing" ~>
        (sync_status \in {"completed", "failed"} /\ trigger_sync(sync_status).scheduled)

\* a cycle has completed after six answered page requests, three of them for
\* the three pages of the contacts
C28_Witness ==
    /\ sync_status = "completed"
    /\ Len(requests) = 6
    /\ \A k \in DOMAIN requests : requests[k].ok
    /\ requests[3].page = 3

\* C29: the summary a cycle stores at its end is computed from the contacts,
\* transactions and plans that this cycle has stored (steps 2, 4 and 6 of the
\* cycle), never from those of an earlier cycle; when the reads of the
\* reconcile step fail, it is computed from no records at all.
C29_SummaryOfOwnPayloads ==
    [][(Leaving("returned") # {} /\ log'[10].ok) =>
          LET Own(i) == Loads(blobs'[log'[i].name[1]]).data
              stored == blobs'[log'[10].name[1]]
          IN  \/ stored = Summary(Own(2), Own(4), Own(6), "syncing", sync_errors', clock)
              \/ stored = Summary(<<>>, <<>>, <<>>, "syncing", sync_errors', clock)]_vars

\* a second cycle has completed one second after the first, with contacts
\* that differ from those the first cycle stored
C29_Witness ==
    /\ sync_status = "completed"
    /\ <<"completed", "syncing">> \in transitions
    /\ clock = 1
    /\ Len(log) = 10 /\ log[10].ok
    /\ \E n \in DOMAIN blobs :
          /\ n.dir = "contacts"
          /\ n # log[2].name[1]
          /\ Len(Loads(blobs[n]).data) # Len(Loads(blobs[log[2].name[1]]).data)
    /\ blobs[log[10].name[1]].total_donors > 0

\* C30: whenever the state is "failed", the error list is not empty and holds
\* the message of the failure that ended the cycle, the failed upload that is
\* the cycle's last step; get_sync_status reports the list; and until an
\* invocation enters the next cycle, every step leaves the state "failed" and
\* takes no message out of the list.
C30_FailedHasItsError ==
    /\ [](sync_status = "failed" =>
            /\ sync_errors # <<>>
            /\ log # <<>>
            /\ log[Len(log)].op = "put" /\ ~log[Len(log)].ok
            /\ Error("Sync Error", log[Len(log)].what) \in Range(sync_errors)
            /\ get_sync_status(Globals, scheduler).sync_errors = Some(sync_errors))
    /\ [][(/\ sync_status = "failed"
            /\ \A t \in DOMAIN tasks : tasks'[t] = tasks[t])
           => sync_status' = "failed" /\ IsPrefix(sync_errors, sync_errors')]_vars

\* a cycle has failed on an upload after one of its fetches had failed
C30_Witness ==
    /\ sync_status = "failed"
    /\ Len(sync_errors) = 2
    /\ sync_errors[1].kind = "API Error"
    /\ sync_errors[2].kind = "Sync Error"

\* C31 (as claimed): the error list is written by the sync cycle only.  A
\* request to get_donor_summary leaves the list as it is, whether it is served
\* while the state is idle, syncing, completed or failed.
C31_OnlyTheCycleWritesErrors ==
    [][GetDonorSummary => sync_errors' = sync_errors]_vars

\* C32: the summary a sync cycle stores records the state in force while
\* generate_donor_summary runs, "syncing": in the step that ends a cycle
\* "completed" with its summary stored, the stored summary's sync_status is
\* "syncing" and not "completed".
C32_CycleSummarySaysSyncing ==
    [][(Leaving("returned") # {} /\ log'[10].ok) =>
          LET stored == blobs'[log'[10].name[1]]
          IN  /\ sync_status' = "completed"
              /\ log'[10].name[1].dir = "summary"
              /\ stored.sync_status = "syncing"
              /\ stored.sync_status # sync_status']_vars

\* a cycle has completed and the summary it stored says "syncing"
C32_Witness ==
    /\ sync_status = "completed"
    /\ Len(log) = 10 /\ log[10].ok
    /\ blobs[log[10].name[1]].sync_status = "syncing"
    /\ \A t \in DOMAIN tasks : tasks[t].pc = "returned"

\* C35 (as claimed): a request to get_donor_summary leaves the pipeline state
\* unchanged: the sync state, the last-sync time and the error list are as
\* they were, and either no blob is written or exactly one blob, a summary,
\* is written and every other blob is as it was.
C35_QueriesLeaveThePipelineUnchanged ==
    [][GetDonorSummary =>
          /\ sync_status' = sync_status
          /\ last_sync_time' = last_sync_time
          /\ sync_errors' = sync_errors
          /\ \/ blobs' = blobs
             \/ \E n \in DOMAIN blobs' :
                   /\ n.dir = "summary"
                   /\ DOMAIN blobs' = DOMAIN blobs \cup {n}
                   /\ \A m \in DOMAIN blobs \ {n} : blobs'[m] = blobs[m]]_vars

(***************************************************************************)
(* Properties of the store.                                                *)
(***************************************************************************)
\* the puts of a data type in the history of SpecStore
PutsOf(data_type) == {i \in DOMAIN log : log[i].what = data_type}

\* the put that is the most recent one by the time of its writer (the later
\* one of two puts of the same second)
MostRecentPut(data_type) ==
    LET newest == {i \in PutsOf(data_type) :
                      \A j \in PutsOf(data_type) : log[j].at <= log[i].at}
    IN  CHOOSE i \in newest : \A j \in newest : j <= i

\* C7: after one or more successful puts to a collection type, in any order of
\* their times, get_latest returns the payload stored under the key that is
\* lexicographically the greatest of the type, and that key is the key of the
\* put that is chronologically the most recent.
C7_LatestIsMostRecent ==
    \A data_type \in StoreTypes :
        PutsOf(data_type) # {} =>
            LET keys == ListBlobs(blobs, data_type)
                latest == get_latest_data_from_gcs(blobs, data_type, TRUE)
                last == log[MostRecentPut(data_type)]
            IN  /\ latest = Some(last.data)
                /\ \E k \in keys :
                      /\ \A m \in keys \ {k} : StrLess(m.file, k.file)
                      /\ latest = Some(blobs[k])
                      /\ k = BlobName(data_type, strftime(last.at))

\* three puts of a type, the first of them at the latest time, and get_latest
\* returns what the first one stored, which the last one did not store
C7_Witness ==
    /\ Len(log) = 3
    /\ log[1].what = log[3].what
    /\ log[2].what = log[3].what
    /\ log[1].at > log[3].at
    /\ log[1].data # log[3].data
    /\ get_latest_data_from_gcs(blobs, log[1].what, TRUE) = Some(log[1].data)

(***************************************************************************)
(* Properties of the query surface.                                        *)
(***************************************************************************)
LatestRows(data_type) == DataOf(get_latest_data_from_gcs(blobs, data_type, TRUE))

ZeroCounts(summary) ==
    /\ summary.total_donors = 0
    /\ summary.total_transactions = 0
    /\ summary.total_amount_cents = 0
    /\ summary.total_amount_dollars = Dollars(0)
    /\ summary.active_recurring_plans = 0

\* C8: a read of the store that fails, or that finds no key of the type,
\* returns absent; when the read of the contacts returns absent, get_donor_data
\* answers successfully with an empty page (total 0, has_more false); when the
\* reads of the summary and of the collections return absent, get_donor_summary
\* answers successfully: with the default summary, whose counts are all zero,
\* when no summary can be read back, and with the summary it has just stored,
\* whose counts are all zero as well, when its upload succeeded.
C8_ReadErrorsDegrade ==
    /\ \A data_type \in ReadTypes \cup {"summary"} :
          /\ get_latest_data_from_gcs(blobs, data_type, FALSE) = None
          /\ ListBlobs(blobs, data_type) = {} =>
                get_latest_data_from_gcs(blobs, data_type, TRUE) = None
    /\ \A limit \in 1..2, offset \in 0..2, reads \in SUBSET ReadTypes :
          get_latest_data_from_gcs(blobs, "contacts", "contacts" \in reads) = None =>
              LET r == get_donor_data(blobs, limit, offset, reads)
              IN  /\ r.success
                  /\ r.data = <<>>
                  /\ r.meta.total = 0
                  /\ ~r.meta.has_more
    /\ \A q \in QueryIOs :
          (/\ get_latest_data_from_gcs(blobs, "summary", q.first) = None
           /\ \A t \in ReadTypes : get_latest_data_from_gcs(blobs, t, t \in q.reads) = None) =>
              LET r == get_donor_summary(Globals, clock, q)
              IN  /\ r.resp.success
                  /\ get_latest_data_from_gcs(r.G.blobs, "summary", q.second) = None =>
                        /\ r.resp.data = DefaultSummary(sync_status, clock)
                        /\ ZeroCounts(r.resp.data)
                  /\ (q.sumOk /\ q.second) => ZeroCounts(r.resp.data)

\* the bucket holds contacts, the read of them has failed, and the response is
\* the empty page
C8_Witness ==
    /\ resp.op = "get_donor_data"
    /\ resp.success
    /\ resp.meta.total = 0
    /\ LatestRows("contacts") # <<>>

\* the string-normalized ids that the contacts and the transactions carry
NormalizedDonors(contacts, transactions) ==
    {Str(contacts[i].id) : i \in {j \in DOMAIN contacts : contacts[j].id # PyNone}}
    \cup {Str(transactions[i].contact_id) :
            i \in {j \in DOMAIN transactions : transactions[j].contact_id # PyNone}}

\* C9 (as claimed): the donor count of the summary is the size of the union of
\* the string-normalized contact ids and transaction contact_ids; for the
\* dataset of three contacts, five transactions (two of an unknown fourth
\* contact) and one active plan it is 4, with exactly one enriched donor
\* recurring.
C9_DonorCountIsNormalizedUnion ==
    LET contacts == LatestRows("contacts")
        transactions == LatestRows("transactions")
        plans == LatestRows("plans")
        summary == Summary(contacts, transactions, plans, sync_status, sync_errors, clock)
        enriched == EnrichedContacts(contacts, transactions, plans)
    IN  /\ summary.total_donors = Cardinality(NormalizedDonors(contacts, transactions))
        /\ blobs = UpstreamBucket =>
              /\ summary.total_donors = 4
              /\ Cardinality({i \in DOMAIN enriched : enriched[i].stats.is_recurring}) = 1

\* the active plans that reference the contact's id
ActiveReferences(plans, contact) ==
    {i \in DOMAIN plans :
        /\ plans[i].status = "active"
        /\ plans[i].contact_id # PyNone
        /\ contact.id # PyNone
        /\ Str(plans[i].contact_id) = Str(contact.id)}

RECURSIVE SumOver(_, _)
SumOver(f, S) ==
    IF S = {} THEN 0
    ELSE LET x == CHOOSE y \in S : TRUE IN f[x] + SumOver(f, S \ {x})

\* C10: for every enriched donor, is_recurring is true exactly when at least
\* one plan of status "active" references the contact's id, the active-plan
\* count is the number of such plans, the recurring amount is the sum of their
\* amounts, and the plans of any other status change none of the three.
C10_RecurringFromActivePlansOnly ==
    LET contacts == LatestRows("contacts")
        transactions == LatestRows("transactions")
        plans == LatestRows("plans")
        enriched == EnrichedContacts(contacts, transactions, plans)
        IsActivePlan(plan) == plan.status = "active"
        without == EnrichedContacts(contacts, transactions, SelectSeq(plans, IsActivePlan))
    IN  \A i \in DOMAIN contacts :
            LET refs == ActiveReferences(plans, contacts[i])
            IN  /\ enriched[i].stats.is_recurring = (refs # {})
                /\ enriched[i].isRecurring = (refs # {})
                /\ enriched[i].stats.active_plans = Cardinality(refs)
                /\ enriched[i].stats.recurring_contributions =
                      SumOver([j \in DOMAIN plans |-> plans[j].amount], refs)
                /\ enriched[i].stats = without[i].stats
                /\ enriched[i].isRecurring = without[i].isRecurring

\* the listing shows a donor with one active plan, and the bucket holds a
\* cancelled plan of the same contact as well
C10_Witness ==
    /\ resp.op = "get_donor_data"
    /\ resp.data # <<>>
    /\ resp.data[1].stats.is_recurring
    /\ resp.data[1].stats.active_plans = 1
    /\ resp.data[1].stats.recurring_contributions = 700
    /\ \E i \in DOMAIN LatestRows("plans") :
          /\ LatestRows("plans")[i].status = "cancelled"
          /\ Str(LatestRows("plans")[i].contact_id) = resp.data[1].id

\* the transactions whose contact_id is the contact's id, both taken as str()
\* takes them (a missing contact_id and a missing id are both "None")
OwnTransactions(transactions, contact) ==
    {j \in DOMAIN transactions : Str(transactions[j].contact_id) = Str(contact.id)}

\* C11: for every contact of the latest contacts snapshot, the enriched donor's
\* total contributed amount is the sum of the amounts of exactly the
\* transactions whose contact_id equals the contact's id, its transaction count
\* is the number of those transactions, and a contact with no transactions and
\* no plans has every aggregate zero and is not recurring.
C11_ContributionsOfOwnTransactions ==
    LET contacts == LatestRows("contacts")
        transactions == LatestRows("transactions")
        plans == LatestRows("plans")
        enriched == EnrichedContacts(contacts, transactions, plans)
    IN  /\ Len(enriched) = Len(contacts)
        /\ \A i \in DOMAIN contacts :
              LET own == OwnTransactions(transactions, contacts[i])
              IN  /\ enriched[i].stats.total_contributions =
                        SumOver([j \in DOMAIN transactions |-> transactions[j].amount], own)
                  /\ enriched[i].stats.contribution_count = Cardinality(own)
                  /\ (own = {} /\ ActiveReferences(plans, contacts[i]) = {}) =>
                        /\ enriched[i].stats =
                              [total_contributions |-> 0, recurring_contributions |-> 0,
                               contribution_count |-> 0, active_plans |-> 0,
                               is_recurring |-> FALSE]
                        /\ ~enriched[i].isRecurring
                        /\ enriched[i].recurringFrequency = None

\* the listing shows a donor with two transactions of different amounts, and
\* the bucket holds the transactions of nobody else
C11_Witness ==
    /\ resp.op = "get_donor_data"
    /\ resp.data # <<>>
    /\ resp.data[1].stats.contribution_count = 2
    /\ resp.data[1].stats.total_contributions = -150
    /\ Len(LatestRows("transactions")) = 2

\* what generate_donor_summary stores when the reads of `reads` succeed
StoredSummary(reads) ==
    generate_donor_summary(Globals, clock, reads, TRUE)
        .blobs[BlobName("summary", strftime(clock))]

\* the rows generate_donor_summary works on when the reads of `reads` succeed
RowsRead(data_type, reads) ==
    DataOf(get_latest_data_from_gcs(blobs, data_type, data_type \in reads))

\* C12: the summary the reconciler computes has a transaction count equal to the
\* length of the transaction list, a total amount equal to the sum of the
\* amounts of all transactions, an active plan count equal to the number of
\* plans of status "active", and an error field that is the error list when
\* the list is not empty and null when it is empty.
C12_SummaryFields ==
    \A reads \in SUBSET ReadTypes :
        LET transactions == RowsRead("transactions", reads)
            plans == RowsRead("plans", reads)
            summary == StoredSummary(reads)
        IN  /\ summary.total_transactions = Len(transactions)
            /\ summary.total_amount_cents =
                  SumOver([j \in DOMAIN transactions |-> transactions[j].amount],
                          DOMAIN transactions)
            /\ summary.active_recurring_plans =
                  Cardinality({j \in DOMAIN plans : plans[j].status = "active"})
            /\ summary.sync_errors =
                  (IF sync_errors = <<>> THEN None ELSE Some(sync_errors))

\* a request was answered with the summary it generated from two transactions
\* and an active plan
C12_Witness ==
    /\ resp.op = "get_donor_summary"
    /\ resp.data.total_transactions = 2
    /\ resp.data.total_amount_cents = -150
    /\ resp.data.active_recurring_plans = 1
    /\ resp.data.sync_errors = None

\* total / 100, as units and hundredths
ExactDollars(total) == [units |-> total \div 100, hundredths |-> total % 100]

\* C13 (as claimed): the summary's total_amount_cents is the exact integer sum
\* of the transaction amounts (22171 for 10000, 9671 and 2500) and its dollar
\* value is that total divided by 100 (221.71 for 22171), for every value of
\* the total.
C13_DollarsAreTotalOverHundred ==
    LET transactions == LatestRows("transactions")
        summary == StoredSummary(ReadTypes)
        total == SumOver([j \in DOMAIN transactions |-> transactions[j].amount],
                         DOMAIN transactions)
    IN  /\ summary.total_amount_cents = total
        /\ summary.total_amount_dollars = ExactDollars(total)
        /\ blobs = AmountsBucket =>
              /\ summary.total_amount_cents = 22171
              /\ summary.total_amount_dollars = [units |-> 221, hundredths |-> 71]

\* the summary that reconciling the latest snapshots gives now
Reconciled ==
    Summary(LatestRows("contacts"), LatestRows("transactions"), LatestRows("plans"),
            sync_status, sync_errors, clock)

\* C20 (as claimed): after any sequence of cycles, the last of them completed
\* or failed, the counts in the summary that get_donor_summary returns are
\* those of the reconciliation of the latest snapshots of contacts,
\* transactions and plans.
C20_SummaryIsRecomputed ==
    sync_status \in {"completed", "failed"} =>
        LET data == get_donor_summary(Globals, clock, AllOk).resp.data
        IN  /\ data.total_donors = Reconciled.total_donors
            /\ data.total_transactions = Reconciled.total_transactions
            /\ data.total_amount_cents = Reconciled.total_amount_cents
            /\ data.active_recurring_plans = Reconciled.active_recurring_plans

(***************************************************************************)
(* Properties of the production layout.                                    *)
(***************************************************************************)
\* C27 (as claimed): in the production layout a read of summary, contacts or
\* transactions returns the one blob of that type with its fields renamed
\* only: the list of contacts or transactions is returned unchanged under
\* "data", and every field of the summary has the value of its source field,
\* the total in cents being the total of the blob (a number of dollars with
\* two decimals).
C27_ProductionReadRenamesOnly ==
    (resp.op = "get_latest" /\ resp.result # None) =>
        LET source == blobs[ProductionName(resp.data_type)]
            result == resp.result[1]
        IN  IF resp.data_type = "summary"
            THEN /\ result.total_donors = source.total_donors
                 /\ result.total_transactions = source.total_donations
                 /\ result.total_amount_dollars = source.total_amount
                 /\ result.total_amount_cents = source.total_amount
                 /\ result.active_recurring_plans = source.recurring_donors
                 /\ result.last_updated = source.last_sync
                 /\ result.sync_status = source.sync_status
            ELSE result = [data |-> source[resp.data_type]]

(***************************************************************************)
(* Properties of the listing.                                              *)
(***************************************************************************)
RECURSIVE Walk(_, _)
\* what a client collects that requests the offsets offset, offset + limit, ...
\* until has_more is false
Walk(limit, offset) ==
    LET r == get_donor_data(blobs, limit, offset, ReadTypes)
    IN  IF r.meta.has_more THEN r.data \o Walk(limit, offset + limit) ELSE r.data

\* C21: for limit >= 1 and offset >= 0, get_donor_data returns the enriched
\* contacts at the positions offset .. offset + limit - 1 (as far as they
\* exist) of the list of all enriched contacts in the order of the contacts
\* snapshot, total is the number of contacts, has_more is true exactly when
\* offset + limit < total, and the pages at the offsets 0, limit, 2 * limit, ...
\* up to the first one without has_more make up the whole list in order.
C21_PagesPartitionTheListing ==
    LET all == EnrichedContacts(LatestRows("contacts"), LatestRows("transactions"),
                                LatestRows("plans"))
        total == Len(LatestRows("contacts"))
    IN  /\ \A limit \in 1..(MaxRows + 1) :
              /\ Walk(limit, 0) = all
              /\ \A offset \in 0..(MaxRows + 1) :
                    LET r == get_donor_data(blobs, limit, offset, ReadTypes)
                        n == IF offset >= total THEN 0 ELSE Min(limit, total - offset)
                    IN  /\ r.data = [k \in 1..n |-> all[offset + k]]
                        /\ r.meta.total = total
                        /\ r.meta.has_more = (offset + limit < total)
        /\ resp.op = "get_donor_data" =>
              \E limit \in 1..2, offset \in 0..2 :
                  /\ resp.meta.per_page = limit
                  /\ resp.meta.page = (offset \div limit) + 1
                  /\ \/ resp.data = <<>> /\ resp.meta.total = 0
                     \/ /\ resp.meta.total = total
                        /\ resp.meta.has_more = (offset + limit < total)
                        /\ [k \in DOMAIN resp.data |-> resp.data[k].id] =
                              [k \in 1..(IF offset >= total THEN 0
                                         ELSE Min(limit, total - offset)) |->
                                  all[offset + k].id]

\* the second page of two was served: the third of three contacts, no more
C21_Witness ==
    /\ resp.op = "get_donor_data"
    /\ resp.meta = [total |-> 3, page |-> 2, per_page |-> 2, has_more |-> FALSE]
    /\ Len(resp.data) = 1
    /\ resp.data[1].id = Str(LatestRows("contacts")[3].id)

Orphans ==
    {i \in DOMAIN LatestRows("transactions") :
        /\ Truthy(LatestRows("transactions")[i].contact_id)
        /\ \A k \in DOMAIN LatestRows("contacts") :
              Str(LatestRows("contacts")[k].id)
                  # Str(LatestRows("transactions")[i].contact_id)}

\* C24: the listing holds exactly one record per contact of the snapshot, in
\* order; a transaction whose contact_id is the id of no contact has no record
\* in the listing, but its contact_id counts as one donor of the summary and
\* its amount is part of the summary's total: without the transactions of
\* that contact_id the summary would count one donor less and their amounts
\* less.
C24_UnmatchedTransactionsCount ==
    LET contacts == LatestRows("contacts")
        transactions == LatestRows("transactions")
        listing == get_donor_data(blobs, Len(contacts) + 1, 0, ReadTypes).data
        summary == StoredSummary(ReadTypes)
    IN  /\ [k \in DOMAIN listing |-> listing[k].id]
              = [k \in DOMAIN contacts |-> Str(contacts[k].id)]
        /\ \A i \in Orphans :
              LET Other(txn) == txn.contact_id # transactions[i].contact_id
                  Same(txn) == txn.contact_id = transactions[i].contact_id
                  same == SelectSeq(transactions, Same)
                  rest == Summary(contacts, SelectSeq(transactions, Other),
                                  LatestRows("plans"), sync_status, sync_errors, clock)
              IN  /\ summary.total_donors = rest.total_donors + 1
                  /\ summary.total_amount_cents = rest.total_amount_cents
                        + SumSeq([k \in DOMAIN same |-> same[k].amount])
                  /\ summary.total_transactions = rest.total_transactions + Len(same)
                  /\ \A k \in DOMAIN listing :
                        listing[k].id # Str(transactions[i].contact_id)

\* the summary served counts two donors, one of them known only from a
\* transaction of 100, and the listing served has one record
C24_Witness ==
    /\ Orphans # {}
    /\ Len(LatestRows("contacts")) = 1
    /\ Len(LatestRows("transactions")) = 1
    /\ resp.op = "get_donor_summary"
    /\ "sync_errors" \in DOMAIN resp.data
    /\ resp.data.total_donors = 2
    /\ resp.data.total_amount_cents = 100

\* C25: the recurringFrequency of an enriched contact is the interval of the
\* first plan, in the order of the plans snapshot, among the active plans that
\* reference the contact ("monthly" when that plan has no interval), and it is
\* absent exactly when no active plan references the contact.
C25_FrequencyOfFirstActivePlan ==
    LET contacts == LatestRows("contacts")
        plans == LatestRows("plans")
        listing == get_donor_data(blobs, Len(contacts) + 1, 0, ReadTypes).data
    IN  \A k \in DOMAIN listing :
            LET Mine(i) ==
                    /\ plans[i].status = "active"
                    /\ Truthy(plans[i].contact_id)
                    /\ Str(plans[i].contact_id) = Str(contacts[k].id)
                mine == {i \in DOMAIN plans : Mine(i)}
            IN  /\ (listing[k].recurringFrequency = None) = (mine = {})
                /\ listing[k].isRecurring = (mine # {})
                /\ \A i \in mine :
                      (\A j \in mine : i <= j) =>
                          listing[k].recurringFrequency =
                              Some(IF "interval" \in DOMAIN plans[i] THEN plans[i].interval
                                   ELSE "monthly")

\* the listing served shows a weekly donor who has a monthly plan as well, the
\* weekly one being the first of the two
C25_Witness ==
    /\ resp.op = "get_donor_data"
    /\ Len(resp.data) >= 1
    /\ resp.data[1].recurringFrequency = Some("weekly")
    /\ resp.data[1].stats.active_plans = 2
    /\ resp.data[1].stats.recurring_contributions = 1200

\* the transactions of the snapshot whose contact_id is the id of no contact
\* of the snapshot
Unmatched ==
    LET contacts == LatestRows("contacts")
        NoContact(txn) ==
            \A k \in DOMAIN contacts : Str(contacts[k].id) # Str(txn.contact_id)
    IN  SelectSeq(LatestRows("transactions"), NoContact)

\* C33: when every contact of the snapshot has an id and no two contacts have
\* the same id, the listing and the summary computed from the same snapshots
\* account for every transaction once: the total_contributions of all enriched
\* contacts plus the amounts of the transactions that match no contact is the
\* summary's total amount, and the contribution_count of all enriched contacts
\* plus the number of those transactions is the summary's transaction count.
C33_ListingAndSummaryConserve ==
    LET contacts == LatestRows("contacts")
        listing == get_donor_data(blobs, Len(contacts) + 1, 0, ReadTypes).data
        summary == StoredSummary(ReadTypes)
        unique ==
            \A k \in DOMAIN contacts :
                /\ Truthy(contacts[k].id)
                /\ \A j \in DOMAIN contacts :
                      j # k => Str(contacts[j].id) # Str(contacts[k].id)
    IN  unique =>
          /\ Len(listing) = Len(contacts)
          /\ SumSeq([k \in DOMAIN listing |-> listing[k].stats.total_contributions])
                + SumSeq([i \in DOMAIN Unmatched |-> Unmatched[i].amount])
                = summary.total_amount_cents
          /\ SumSeq([k \in DOMAIN listing |-> listing[k].stats.contribution_count])
                + Len(Unmatched)
                = summary.total_transactions

\* the summary served counts two transactions, of 100 of the one contact and
\* of -250 of an id that no contact has
C33_Witness ==
    /\ Len(LatestRows("contacts")) = 1
    /\ LatestRows("contacts")[1].id = PyInt(1)
    /\ Len(LatestRows("transactions")) = 2
    /\ Len(Unmatched) = 1
    /\ Unmatched[1].amount = -250
    /\ resp.op = "get_donor_summary"
    /\ "sync_errors" \in DOMAIN resp.data
    /\ resp.data.total_transactions = 2
    /\ resp.data.total_amount_cents = -150

\* C34 (as claimed): records without an identity are attributed to nobody.
\* The statistics of every enriched contact are those computed without the
\* transactions and plans that have no contact_id, a contact that has no id has
\* no contributions and no active plans, and the summary counts the donors it
\* would count without the transactions that have no contact_id.
C34_MissingIdsAttributedToNobody ==
    LET contacts == LatestRows("contacts")
        Known(row) == row.contact_id # PyNone
        transactions == SelectSeq(LatestRows("transactions"), Known)
        plans == SelectSeq(LatestRows("plans"), Known)
        listing == get_donor_data(blobs, Len(contacts) + 1, 0, ReadTypes).data
        summary == StoredSummary(ReadTypes)
    IN  /\ \A k \in DOMAIN listing :
              /\ listing[k].stats = EnrichedContact(contacts[k], transactions, plans).stats
              /\ contacts[k].id = PyNone =>
                    /\ listing[k].stats.contribution_count = 0
                    /\ listing[k].stats.total_contributions = 0
                    /\ listing[k].stats.active_plans = 0
                    /\ ~listing[k].isRecurring
        /\ summary.total_donors = Cardinality(donor_ids(contacts, transactions))

====
